---- MODULE Spec2Model ----
(***************************************************************************)
(* Model of the voice-ai TTS adapters (ElevenLabs, PlayHT, Deepgram):      *)
(* generate (single call, poll-and-download) and generateStream (Readable  *)
(* wrapper and async-generator variants) with the events the adapter       *)
(* emits, the vendor HTTP requests it issues and what the caller observes. *)
(***************************************************************************)
EXTENDS Integers, Sequences, FiniteSets, TLC

VARIABLES adapter, shape, speechListener, calls, events, hs, stt, ctor

vars == <<adapter, shape, speechListener, calls, events, hs, stt, ctor>>

(***************************************************************************)
(* Bounds of the model                                                     *)
(***************************************************************************)
MaxAudioLen == 3
MaxChunks == 2
MaxCancels == 2
MaxMessages == 2
MaxErrors == 1
MaxSends == 3
MaxCloses == 2
MaxRequests == 2
MaxOpens == 2

(***************************************************************************)
(* Program constants                                                       *)
(***************************************************************************)
maxAttempts == 30

\* an absent optional field (responseIndex?, interactionCount?)
Undefined == 0 - 1

Adapters == {"ElevenLabs", "PlayHT", "Deepgram"}
Calls == {1, 2}
Handles == {1, 2}

ByteValues == {0, 77, 255}

RECURSIVE BytesUpTo(_)
BytesUpTo(n) ==
  IF n = 0 THEN {<<>>}
  ELSE LET S == BytesUpTo(n - 1)
       IN  S \cup {Append(s, b) : s \in {t \in S : Len(t) = n - 1}, b \in ByteValues}

AudioValues == BytesUpTo(MaxAudioLen)

Texts == {"", "hi"}
ResponseIndexes == {Undefined, 0, 3}
InteractionCounts == {Undefined, 7}

TTSRequest == [text : Texts, responseIndex : ResponseIndexes,
               interactionCount : InteractionCounts]

NoRequest == [text |-> "", responseIndex |-> Undefined, interactionCount |-> Undefined]

(***************************************************************************)
(* Buffer.toString('base64'): 3 bytes to 4 sextets, '=' padding (Pad)      *)
(***************************************************************************)
Pad == 64

RECURSIVE Base64Hex(_)
Base64Hex(b) ==
  IF Len(b) = 0 THEN <<>>
  ELSE <<b[1] \div 16, b[1] % 16>> \o Base64Hex(Tail(b))

RECURSIVE Base64(_)
Base64(b) ==
  IF Len(b) = 0 THEN <<>>
  ELSE IF Len(b) = 1 THEN <<b[1] \div 4, (b[1] % 4) * 16, Pad, Pad>>
  ELSE IF Len(b) = 2
    THEN <<b[1] \div 4, (b[1] % 4) * 16 + (b[2] \div 16), (b[2] % 16) * 4, Pad>>
  ELSE <<b[1] \div 4, (b[1] % 4) * 16 + (b[2] \div 16),
         (b[2] % 16) * 4 + (b[3] \div 64), b[3] % 64>>
       \o Base64(SubSeq(b, 4, Len(b)))

\* Buffer.from(payload, 'base64'): 4 sextets back to 3 bytes
RECURSIVE Base64Decode(_)
Base64Decode(s) ==
  IF Len(s) < 4 THEN <<>>
  ELSE LET b1 == s[1] * 4 + (s[2] \div 16)
           b2 == (s[2] % 16) * 16 + (s[3] \div 4)
           b3 == (s[3] % 4) * 64 + s[4]
           rest == Base64Decode(SubSeq(s, 5, Len(s)))
       IN  IF s[3] = Pad THEN <<b1>> \o rest
           ELSE IF s[4] = Pad THEN <<b1, b2>> \o rest
           ELSE <<b1, b2, b3>> \o rest

\* request.responseIndex ?? 0
OrZero(x) == IF x = Undefined THEN 0 ELSE x

(***************************************************************************)
(* Events emitted on the adapter (EventEmitter.emit), in emission order.   *)
(* src/id tag the generate call or stream handle the emission belongs to.  *)
(***************************************************************************)
SpeechEvent(src, id, idx, audio, text, ic) ==
  [kind |-> "SPEECH", src |-> src, id |-> id, responseIndex |-> idx,
   audio |-> audio, text |-> text, interactionCount |-> ic, error |-> "none"]

ErrorEvent(src, id, e) ==
  [kind |-> "ERROR", src |-> src, id |-> id, responseIndex |-> Undefined,
   audio |-> <<>>, text |-> "", interactionCount |-> Undefined, error |-> e]

\* this.emit(TTSEvents.SPEECH, request.responseIndex ?? 0,
\*           audioData.toString('base64'), request.text, request.interactionCount)
SpeechPayloadHex(c, req, audioData) ==
  SpeechEvent("generate", c, OrZero(req.responseIndex), Base64Hex(audioData), req.text,
              req.interactionCount)

SpeechPayload(c, req, audioData) ==
  SpeechEvent("generate", c, OrZero(req.responseIndex), Base64(audioData), req.text,
              req.interactionCount)

\* result = { audioData, metadata: { text, responseIndex } }
BuildResultOrZero(req, audioData) ==
  [audioData |-> audioData,
   metadata |-> [text |-> req.text, responseIndex |-> OrZero(req.responseIndex)]]

BuildResult(req, audioData) ==
  [audioData |-> audioData,
   metadata |-> [text |-> req.text, responseIndex |-> req.responseIndex]]

NoResult == [audioData |-> <<>>,
             metadata |-> [text |-> "", responseIndex |-> Undefined]]

\* if (!request.text) throw ...   (only the PlayHT adapter has the check)
ValidatesText(a) == a = "PlayHT"

\* the poll-and-download adapter
Polls(a) == a = "PlayHT"

\* for (let attempt = 0; attempt < maxAttempts; attempt++)
PollLoopContinuesOffByOne(attempt) == attempt <= maxAttempts

PollLoopContinues(attempt) == attempt < maxAttempts

\* classification of a status response inside pollForCompletion
StatusStepIgnoresFailed(ok, status) ==
  IF ~ok THEN "throw_check"
  ELSE IF status = "completed" THEN "return_url"
  ELSE "wait"

StatusStep(ok, status) ==
  IF ~ok THEN "throw_check"
  ELSE IF status = "completed" THEN "return_url"
  ELSE IF status = "failed" THEN "throw_failed"
  ELSE "wait"

\* catch (error) { this.emit(TTSEvents.ERROR, error); throw error; }
CatchEmitOther(evs, c, e) == Append(evs, ErrorEvent("generate", c, "wrapped"))

CatchEmit(evs, c, e) == Append(evs, ErrorEvent("generate", c, e))

(***************************************************************************)
(* State of one generate call                                              *)
(***************************************************************************)
IdleCall ==
  [pc |-> "idle", req |-> NoRequest, attempt |-> 0,
   submitCount |-> 0, statusCount |-> 0, downloadCount |-> 0,
   statusLog |-> <<>>, completedUrl |-> "none", downloadUrl |-> "none",
   fetched |-> <<>>, result |-> NoResult, rejection |-> "none"]

Rejected(call, e) == [call EXCEPT !.pc = "rejected", !.rejection = e]

\* the catch block of generate: emit ERROR, then rethrow
ThrowRejectsAll(c, call, e) ==
  /\ calls' = [d \in Calls |->
                 IF d = c THEN Rejected(call, e)
                 ELSE IF calls[d].pc \notin {"idle", "resolved", "rejected"}
                        THEN Rejected(calls[d], e)
                        ELSE calls[d]]
  /\ events' = CatchEmit(events, c, e)

Throw(c, call, e) ==
  /\ calls' = [calls EXCEPT ![c] = Rejected(call, e)]
  /\ events' = CatchEmit(events, c, e)

Urls == {"u1", "u2"}
Statuses == {"completed", "failed", "pending"}

\* generate(request) is called: up to the first await
Generate(c, req) ==
  /\ calls[c].pc = "idle"
  /\ IF ValidatesText(adapter) /\ req.text = ""
       THEN Throw(c, [calls[c] EXCEPT !.req = req], "text_required")
       ELSE /\ calls' = [calls EXCEPT ![c] =
                           [@ EXCEPT !.req = req, !.pc = "submitting",
                                     !.submitCount = @ + 1]]
            /\ events' = events
  /\ UNCHANGED <<ctor, stt, adapter, shape, speechListener, hs>>

\* the synthesis request settles: fetch rejects, or answers !ok, or answers ok
SubmitSettles(c, outcome) ==
  /\ calls[c].pc = "submitting"
  /\ CASE outcome = "reject" -> Throw(c, calls[c], "network")
       [] outcome = "notok" -> Throw(c, calls[c], "api_error")
       [] outcome = "ok" ->
            IF ~Polls(adapter)
              THEN /\ calls' = [calls EXCEPT ![c] = [@ EXCEPT !.pc = "reading_body"]]
                   /\ events' = events
              ELSE IF PollLoopContinues(0)
                THEN /\ calls' = [calls EXCEPT ![c] =
                                   [@ EXCEPT !.pc = "polling", !.attempt = 0,
                                             !.statusCount = @ + 1]]
                     /\ events' = events
                ELSE Throw(c, calls[c], "timeout")
  /\ UNCHANGED <<ctor, stt, adapter, shape, speechListener, hs>>

\* pollForCompletion: one status request settles
StatusSettles(c, outcome, status, url) ==
  /\ calls[c].pc = "polling"
  /\ IF outcome = "reject"
       THEN Throw(c, calls[c], "network")
       ELSE LET logged == [calls[c] EXCEPT !.statusLog =
                             Append(@, IF outcome = "ok" THEN status ELSE "notok")]
                step == StatusStep(outcome = "ok", status)
            IN  CASE step = "throw_check" -> Throw(c, logged, "status_check_failed")
                  [] step = "throw_failed" -> Throw(c, logged, "generation_failed")
                  [] step = "return_url" ->
                       /\ calls' = [calls EXCEPT ![c] =
                                     [logged EXCEPT !.pc = "downloading",
                                                    !.completedUrl = url,
                                                    !.downloadUrl = url,
                                                    !.downloadCount = @ + 1]]
                       /\ events' = events
                  [] step = "wait" ->
                       /\ calls' = [calls EXCEPT ![c] = [logged EXCEPT !.pc = "delay"]]
                       /\ events' = events
  /\ UNCHANGED <<ctor, stt, adapter, shape, speechListener, hs>>

\* the setTimeout(delayMs) promise resolves: attempt++, loop test
DelayElapsesNoIncrement(c) ==
  /\ calls[c].pc = "delay"
  /\ IF PollLoopContinues(calls[c].attempt)
       THEN /\ calls' = [calls EXCEPT ![c] =
                          [@ EXCEPT !.pc = "polling", !.statusCount = @ + 1]]
            /\ events' = events
       ELSE Throw(c, calls[c], "timeout")
  /\ UNCHANGED <<ctor, stt, adapter, shape, speechListener, hs>>

DelayElapses(c) ==
  /\ calls[c].pc = "delay"
  /\ IF PollLoopContinues(calls[c].attempt + 1)
       THEN /\ calls' = [calls EXCEPT ![c] =
                          [@ EXCEPT !.pc = "polling", !.attempt = @ + 1,
                                    !.statusCount = @ + 1]]
            /\ events' = events
       ELSE Throw(c, [calls[c] EXCEPT !.attempt = @ + 1], "timeout")
  /\ UNCHANGED <<ctor, stt, adapter, shape, speechListener, hs>>

\* the audio download request settles
DownloadSettlesRetries(c, outcome) ==
  /\ calls[c].pc = "downloading"
  /\ CASE outcome = "reject" -> Throw(c, calls[c], "network")
       [] outcome = "notok" ->
            IF calls[c].downloadCount < 2
              THEN /\ calls' = [calls EXCEPT ![c] = [@ EXCEPT !.downloadCount = @ + 1]]
                   /\ events' = events
              ELSE Throw(c, calls[c], "download_failed")
       [] outcome = "ok" ->
            /\ calls' = [calls EXCEPT ![c] = [@ EXCEPT !.pc = "reading_body"]]
            /\ events' = events
  /\ UNCHANGED <<ctor, stt, adapter, shape, speechListener, hs>>

DownloadSettles(c, outcome) ==
  /\ calls[c].pc = "downloading"
  /\ CASE outcome = "reject" -> Throw(c, calls[c], "network")
       [] outcome = "notok" -> Throw(c, calls[c], "download_failed")
       [] outcome = "ok" ->
            /\ calls' = [calls EXCEPT ![c] = [@ EXCEPT !.pc = "reading_body"]]
            /\ events' = events
  /\ UNCHANGED <<ctor, stt, adapter, shape, speechListener, hs>>

\* response.arrayBuffer() settles; on success build the result, emit SPEECH,
\* return.  A listener that throws makes emit throw inside the try block.
BodySettles(c, outcome, bytes) ==
  /\ calls[c].pc = "reading_body"
  /\ IF outcome = "reject"
       THEN Throw(c, calls[c], "network")
       ELSE LET got == [calls[c] EXCEPT !.fetched = bytes]
                spoken == Append(events, SpeechPayload(c, got.req, bytes))
            IN  IF speechListener = "throws"
                  THEN /\ calls' = [calls EXCEPT ![c] = Rejected(got, "listener_threw")]
                       /\ events' = CatchEmit(spoken, c, "listener_threw")
                  ELSE /\ calls' = [calls EXCEPT ![c] =
                                     [got EXCEPT !.pc = "resolved",
                                                 !.result = BuildResult(got.req, bytes)]]
                       /\ events' = spoken
  /\ UNCHANGED <<ctor, stt, adapter, shape, speechListener, hs>>

(***************************************************************************)
(* generateStream: state of one stream handle.  trace is the history of    *)
(* the handle in program order: the stream request, reader.read() calls    *)
(* ("read"), the chunks they resolve with ("chunk"), reader.cancel() calls  *)
(* ("release"), what the consumer of the                                   *)
(* sequence is handed ("data", "end", "error") and the consumer's own      *)
(* cancel calls ("cancel").                                                *)
(***************************************************************************)
Mark(t) == [t |-> t, audio |-> <<>>, idx |-> Undefined, e |-> "none"]
DataEntry(b, idx) == [t |-> "data", audio |-> b, idx |-> idx, e |-> "none"]
ErrorEntry(e) == [t |-> "error", audio |-> <<>>, idx |-> Undefined, e |-> e]
ChunkEntry(b) == [t |-> "chunk", audio |-> b, idx |-> Undefined, e |-> "none"]

IdleHandle ==
  [spc |-> "idle", req |-> NoRequest, reader |-> "none", readPending |-> FALSE,
   chunkIndex |-> 0, isDestroyed |-> FALSE, destroyed |-> FALSE, ended |-> FALSE,
   rejection |-> "none", trace |-> <<>>]

\* the chunks the vendor byte stream hands out (never empty)
ChunkValues == {<<77>>, <<0, 255>>}

CountOf(tr, t) == Cardinality({i \in 1..Len(tr) : tr[i].t = t})

\* let chunkIndex = 0
InitialChunkIndexFromRequest(req) == OrZero(req.responseIndex)

InitialChunkIndex(req) == 0

\* chunkIndex++
NextChunkIndex(i) == i + 1

\* which variants emit SPEECH per chunk: the async generators and the
\* Deepgram Readable wrapper (self.emit(TTSEvents.SPEECH, chunkIndex, ...))
StreamEmitsSpeech(a, sh) == sh = "generator" \/ a = "Deepgram"

\* ElevenLabs' read() calls this.emit(TTSEvents.ERROR, ...) with this bound to
\* the Readable, so the event goes to the stream and not to the adapter
ErrorGoesToStream(a) == a = "ElevenLabs"

\* name of the event TTSEvents.ERROR
TTSEventsERROR == "error"

StreamSpeech(h, hd, b) ==
  SpeechEvent("stream", h, hd.chunkIndex, Base64(b), hd.req.text,
              hd.req.interactionCount)

\* const cleanup = () => { isDestroyed = true; reader.cancel()...; stream.destroy(); }
Cleanup(hd) ==
  [hd EXCEPT !.isDestroyed = TRUE, !.destroyed = TRUE,
             !.trace = Append(@, Mark("release"))]

\* Readable.push(chunk): a destroyed or ended stream drops the chunk
PushChunkTwice(hd, b, idx) ==
  IF hd.destroyed \/ hd.ended THEN hd
  ELSE [hd EXCEPT !.trace = @ \o <<DataEntry(b, idx), DataEntry(b, idx)>>]

PushChunk(hd, b, idx) ==
  IF hd.destroyed \/ hd.ended THEN hd
  ELSE [hd EXCEPT !.trace = Append(@, DataEntry(b, idx))]

\* Readable.push(null): 'end' is emitted and the 'end' hook runs cleanup
PushNull(hd) ==
  IF hd.destroyed \/ hd.ended THEN hd
  ELSE Cleanup([hd EXCEPT !.ended = TRUE, !.trace = Append(@, Mark("end"))])

\* Readable.destroy(error): 'error' is emitted and the 'error' hook runs
\* cleanup; a no-op on a stream that is already destroyed
DestroyWith(hd, e) ==
  IF hd.destroyed THEN hd
  ELSE Cleanup([hd EXCEPT !.destroyed = TRUE, !.trace = Append(@, ErrorEntry(e))])

\* stream.emit('error', e): every 'error' listener of the stream is called,
\* the consumer's and the cleanup hook
EmitOnStream(hd, e) ==
  IF TTSEventsERROR = "error"
    THEN Cleanup([hd EXCEPT !.trace = Append(@, ErrorEntry(e))])
    ELSE hd

\* the catch block of read(): emit ERROR, destroy the stream with the error
ReadFails(h, hd, e) ==
  IF ErrorGoesToStream(adapter)
    THEN /\ hs' = [hs EXCEPT ![h] = DestroyWith(EmitOnStream(hd, e), e)]
         /\ events' = events
    ELSE /\ hs' = [hs EXCEPT ![h] = DestroyWith(hd, e)]
         /\ events' = Append(events, ErrorEvent("stream", h, e))

\* the error thrown when the stream request does not give a body stream:
\* PlayHT's Readable variant tells !response.ok from !response.body, the
\* others throw one 'Failed to get stream' error for both
StreamFailure(a, outcome) ==
  IF outcome = "reject" THEN "network"
  ELSE IF a # "PlayHT" THEN "stream_failed"
  ELSE IF outcome = "notok" THEN "api_error"
  ELSE "no_body"

\* the outer catch block of generateStream: emit ERROR, rethrow
StreamThrowSilent(h, hd, e) ==
  /\ hs' = [hs EXCEPT ![h] = [hd EXCEPT !.spc = "rejected", !.rejection = e]]
  /\ events' = events

StreamThrow(h, hd, e) ==
  /\ hs' = [hs EXCEPT ![h] = [hd EXCEPT !.spc = "rejected", !.rejection = e]]
  /\ events' = Append(events, ErrorEvent("stream", h, e))

\* generateStream(request) of the Readable variants, up to the first await
GenerateStream(h, req) ==
  /\ shape = "readable"
  /\ hs[h].spc = "idle"
  /\ IF ValidatesText(adapter) /\ req.text = ""
       THEN StreamThrow(h, [hs[h] EXCEPT !.req = req], "text_required")
       ELSE /\ hs' = [hs EXCEPT ![h] =
                        [@ EXCEPT !.req = req, !.spc = "fetching",
                                  !.trace = Append(@, Mark("request"))]]
            /\ events' = events
  /\ UNCHANGED <<ctor, stt, adapter, shape, speechListener, calls>>

\* the stream request settles; on success the reader is acquired and the
\* handle { stream, cleanup } is returned
StreamFetchSettles(h, outcome) ==
  /\ shape = "readable"
  /\ hs[h].spc = "fetching"
  /\ CASE outcome \in {"reject", "notok", "nobody"} ->
            StreamThrow(h, hs[h], StreamFailure(adapter, outcome))
       [] outcome = "ok" ->
            /\ hs' = [hs EXCEPT ![h] =
                        [@ EXCEPT !.spc = "open", !.reader = "acquired",
                                  !.chunkIndex = InitialChunkIndex(hs[h].req),
                                  !.isDestroyed = FALSE,
                                  !.trace = Append(@, Mark("acquire"))]]
            /\ events' = events
  /\ UNCHANGED <<ctor, stt, adapter, shape, speechListener, calls>>

\* the Readable asks for data: read() runs up to await reader.read()
Pull(h) ==
  /\ shape = "readable"
  /\ hs[h].spc = "open"
  /\ ~hs[h].destroyed /\ ~hs[h].ended /\ ~hs[h].readPending
  /\ IF hs[h].isDestroyed
       THEN hs' = [hs EXCEPT ![h] = PushNull(@)]
       ELSE hs' = [hs EXCEPT ![h] =
                     [@ EXCEPT !.readPending = TRUE,
                               !.trace = Append(@, Mark("read"))]]
  /\ UNCHANGED <<ctor, stt, adapter, shape, speechListener, calls, events>>

\* the pending reader.read() settles and the rest of read() runs
ReadSettles(h, outcome, b) ==
  /\ shape = "readable"
  /\ hs[h].readPending
  /\ LET hd == [hs[h] EXCEPT !.readPending = FALSE]
         got == [hd EXCEPT !.trace = Append(@, ChunkEntry(b))]
     IN  CASE outcome = "reject" -> ReadFails(h, hd, "read_failed")
           [] outcome = "done" ->
                /\ hs' = [hs EXCEPT ![h] = PushNull(hd)]
                /\ events' = events
           [] outcome = "value" ->
                /\ CountOf(got.trace, "read") <= MaxChunks
                /\ IF StreamEmitsSpeech(adapter, shape)
                     THEN IF speechListener = "throws"
                            THEN /\ hs' = [hs EXCEPT ![h] = DestroyWith(got, "listener_threw")]
                                 /\ events' = events \o
                                      <<StreamSpeech(h, got, b),
                                        ErrorEvent("stream", h, "listener_threw")>>
                            ELSE /\ hs' = [hs EXCEPT ![h] =
                                            [PushChunk(got, b, got.chunkIndex) EXCEPT
                                               !.chunkIndex = NextChunkIndex(@)]]
                                 /\ events' = Append(events, StreamSpeech(h, got, b))
                     ELSE /\ hs' = [hs EXCEPT ![h] =
                                     [PushChunk(got, b, Undefined) EXCEPT
                                        !.chunkIndex = NextChunkIndex(@)]]
                          /\ events' = events
  /\ UNCHANGED <<ctor, stt, adapter, shape, speechListener, calls>>

\* the consumer calls the handle's cleanup()
CancelReleasesAll(h) ==
  /\ shape = "readable"
  /\ hs[h].spc = "open"
  /\ CountOf(hs[h].trace, "cancel") < MaxCancels
  /\ hs' = [g \in Handles |->
              IF g = h THEN Cleanup([hs[g] EXCEPT !.trace = Append(@, Mark("cancel"))])
              ELSE IF hs[g].spc = "open" THEN Cleanup(hs[g]) ELSE hs[g]]
  /\ UNCHANGED <<ctor, stt, adapter, shape, speechListener, calls, events>>

Cancel(h) ==
  /\ shape = "readable"
  /\ hs[h].spc = "open"
  /\ CountOf(hs[h].trace, "cancel") < MaxCancels
  /\ hs' = [hs EXCEPT ![h] = Cleanup([@ EXCEPT !.trace = Append(@, Mark("cancel"))])]
  /\ UNCHANGED <<ctor, stt, adapter, shape, speechListener, calls, events>>

(***************************************************************************)
(* The async-generator variants of generateStream: the body runs only      *)
(* while the consumer has a next() outstanding.                            *)
(***************************************************************************)
\* the catch block of the generator: emit ERROR, rethrow to the consumer
GeneratorThrow(h, hd, e) ==
  /\ hs' = [hs EXCEPT ![h] =
              [hd EXCEPT !.spc = "threw", !.rejection = e,
                         !.trace = Append(@, ErrorEntry(e))]]
  /\ events' = Append(events, ErrorEvent("stream", h, e))

\* the consumer calls next(): the first call starts the body (the stream
\* request), a later one resumes it after yield: chunkIndex++, next read
IteratorNext(h, req) ==
  /\ shape = "generator"
  /\ \/ /\ hs[h].spc = "idle"
        /\ hs' = [hs EXCEPT ![h] =
                    [@ EXCEPT !.req = req, !.spc = "fetching",
                              !.trace = Append(@, Mark("request"))]]
     \/ /\ hs[h].spc = "yielded"
        /\ req = hs[h].req
        /\ hs' = [hs EXCEPT ![h] =
                    [@ EXCEPT !.spc = "open", !.readPending = TRUE,
                              !.chunkIndex = NextChunkIndex(@),
                              !.trace = Append(@, Mark("read"))]]
  /\ UNCHANGED <<ctor, stt, adapter, shape, speechListener, calls, events>>

\* the stream request of the generator settles; on success the reader is
\* acquired and the first reader.read() is issued
GeneratorFetchSettles(h, outcome) ==
  /\ shape = "generator"
  /\ hs[h].spc = "fetching"
  /\ CASE outcome \in {"reject", "notok", "nobody"} ->
            GeneratorThrow(h, hs[h], StreamFailure("Deepgram", outcome))
       [] outcome = "ok" ->
            /\ hs' = [hs EXCEPT ![h] =
                        [@ EXCEPT !.spc = "open", !.reader = "acquired",
                                  !.chunkIndex = InitialChunkIndex(hs[h].req),
                                  !.readPending = TRUE,
                                  !.trace = @ \o <<Mark("acquire"), Mark("read")>>]]
            /\ events' = events
  /\ UNCHANGED <<ctor, stt, adapter, shape, speechListener, calls>>

\* the pending reader.read() of the generator settles: break on done,
\* otherwise build the chunk, emit SPEECH and yield it
GeneratorReadSettles(h, outcome, b) ==
  /\ shape = "generator"
  /\ hs[h].spc = "open" /\ hs[h].readPending
  /\ LET hd == [hs[h] EXCEPT !.readPending = FALSE]
         got == [hd EXCEPT !.trace = Append(@, ChunkEntry(b))]
     IN  CASE outcome = "reject" -> GeneratorThrow(h, hd, "read_failed")
           [] outcome = "done" ->
                /\ hs' = [hs EXCEPT ![h] =
                            [hd EXCEPT !.spc = "done", !.ended = TRUE,
                                       !.trace = Append(@, Mark("end"))]]
                /\ events' = events
           [] outcome = "value" ->
                /\ CountOf(got.trace, "read") <= MaxChunks
                /\ IF speechListener = "throws"
                     THEN /\ hs' = [hs EXCEPT ![h] =
                                     [got EXCEPT !.spc = "threw",
                                                !.rejection = "listener_threw",
                                                !.trace = Append(@, ErrorEntry("listener_threw"))]]
                          /\ events' = events \o
                               <<StreamSpeech(h, got, b),
                                 ErrorEvent("stream", h, "listener_threw")>>
                     ELSE /\ hs' = [hs EXCEPT ![h] =
                                     [got EXCEPT !.spc = "yielded",
                                                !.trace = Append(@, DataEntry(b, got.chunkIndex))]]
                          /\ events' = Append(events, StreamSpeech(h, got, b))
  /\ UNCHANGED <<ctor, stt, adapter, shape, speechListener, calls>>

\* the consumer stops iterating (iterator.return()) while the generator is
\* suspended at yield: the body has no finally, it just completes
IteratorReturn(h) ==
  /\ shape = "generator"
  /\ hs[h].spc = "yielded"
  /\ hs' = [hs EXCEPT ![h] =
              [@ EXCEPT !.spc = "done", !.trace = Append(@, Mark("cancel"))]]
  /\ UNCHANGED <<ctor, stt, adapter, shape, speechListener, calls, events>>

(***************************************************************************)
(* DeepgramSTT: the live transcription session.  stt.ready is what the     *)
(* vendor connection's getReadyState() returns, stt.registered counts how  *)
(* often the Open handler has registered the message handlers, stt.events  *)
(* is what the adapter emitted, stt.vlog the vendor messages received      *)
(* (each tagged with the utterance it belongs to), stt.sendLog the         *)
(* payloads passed to send() and stt.sent what reached the connection.     *)
(***************************************************************************)
CONNECTING == 0
OPEN == 1
CLOSING == 2
CLOSED == 3

\* optional vendor flags is_final / speech_final
Flags == {"absent", "false", "true"}

\* event.is_final ?? false
OrFalseDefaultsTrue(x) == x # "false"

OrFalse(x) == x = "true"

\* transcripts as sequences of words and spaces ("sp")
Transcripts == {<<>>, <<"sp", "hello", "sp">>}

RECURSIVE TrimLeft(_)
TrimLeft(t) == IF Len(t) > 0 /\ t[1] = "sp" THEN TrimLeft(Tail(t)) ELSE t

RECURSIVE TrimRight(_)
TrimRight(t) ==
  IF Len(t) > 0 /\ t[Len(t)] = "sp" THEN TrimRight(SubSeq(t, 1, Len(t) - 1)) ELSE t

\* alternative.transcript.trim()
Trim(t) == TrimRight(TrimLeft(t))

VendorMessage(kind, type, alts, transcript, isFinal, speechFinal) ==
  [kind |-> kind, type |-> type, alts |-> alts, transcript |-> transcript,
   is_final |-> isFinal, speech_final |-> speechFinal,
   channel |-> 0, timestamp |-> 0, utt |-> 0]

\* SpeechStartedEvent {timestamp, channel}
SpeechStartedMessage(timestamp, channel) ==
  [VendorMessage("SpeechStarted", "SpeechStarted", 0, <<>>, "absent", "absent")
     EXCEPT !.timestamp = timestamp, !.channel = channel]

\* the messages of the vendor connection: Transcript events (Results with
\* or without alternatives, or another type), UtteranceEnd, SpeechStarted
VendorMessages ==
  {VendorMessage("Transcript", "Results", 1, t, f, sf) :
      t \in Transcripts, f \in Flags, sf \in Flags}
  \cup {VendorMessage("Transcript", "Results", 0, <<>>, "absent", "absent"),
        VendorMessage("Transcript", "Metadata", 0, <<>>, "absent", "absent"),
        VendorMessage("UtteranceEnd", "UtteranceEnd", 0, <<>>, "absent", "absent"),
        SpeechStartedMessage(0, 0), SpeechStartedMessage(5, 1)}

SttEvent(kind, k) ==
  [kind |-> kind, text |-> <<>>, isFinal |-> FALSE, speechFinal |-> FALSE,
   channel |-> Undefined, timestamp |-> Undefined, msg |-> k]

TranscriptionEvent(text, isFinal, speechFinal, k) ==
  [kind |-> "TRANSCRIPTION", text |-> text, isFinal |-> isFinal,
   speechFinal |-> speechFinal, channel |-> Undefined, timestamp |-> Undefined,
   msg |-> k]

\* the Transcript handler
TranscriptEventsTwice(m, k) ==
  IF m.type = "Results" /\ m.alts > 0
    THEN <<TranscriptionEvent(Trim(m.transcript), OrFalse(m.is_final),
                              OrFalse(m.speech_final), k),
           TranscriptionEvent(Trim(m.transcript), OrFalse(m.is_final),
                              OrFalse(m.speech_final), k)>>
    ELSE <<>>

TranscriptEvents(m, k) ==
  IF m.type = "Results" /\ m.alts > 0
    THEN <<TranscriptionEvent(Trim(m.transcript), OrFalse(m.is_final),
                              OrFalse(m.speech_final), k)>>
    ELSE <<>>

\* the UtteranceEnd handler
UtteranceEndSynthesizes(m, k) == <<TranscriptionEvent(<<>>, TRUE, TRUE, k)>>

UtteranceEndEvents(m, k) ==
  <<[SttEvent("UTTERANCE_END", k) EXCEPT !.channel = m.channel]>>

\* the SpeechStarted handler
SpeechStartedEventsNoPayload(m, k) == <<SttEvent("SPEECH_STARTED", k)>>

SpeechStartedEvents(m, k) ==
  <<[SttEvent("SPEECH_STARTED", k) EXCEPT !.timestamp = m.timestamp,
                                          !.channel = m.channel]>>

HandlerEvents(m, k) ==
  CASE m.kind = "Transcript" -> TranscriptEvents(m, k)
    [] m.kind = "UtteranceEnd" -> UtteranceEndEvents(m, k)
    [] m.kind = "SpeechStarted" -> SpeechStartedEvents(m, k)

\* every registered copy of a handler runs
RECURSIVE Repeat(_, _)
Repeat(evs, n) == IF n = 0 THEN <<>> ELSE evs \o Repeat(evs, n - 1)

\* if (this.getReadyState() === 1)
SendGuardNotClosed(ready) == ready <= OPEN

SendGuard(ready) == ready = OPEN

SendPayloads == {Base64(<<77>>), Base64(<<0, 255>>)}

SttInitial ==
  [ready |-> CONNECTING, registered |-> 0, events |-> <<>>, vlog |-> <<>>,
   utt |-> 1, uttClosed |-> FALSE, closeCalls |-> 0, errors |-> 0,
   sendLog |-> <<>>, sent |-> <<>>]

\* the vendor connection opens: the Open handler emits OPEN and registers
\* the Transcript, UtteranceEnd, SpeechStarted, Error and Close handlers
VendorOpenSilent ==
  /\ stt.ready = CONNECTING
  /\ stt' = [stt EXCEPT !.ready = OPEN, !.registered = @ + 1]
  /\ UNCHANGED <<ctor, adapter, shape, speechListener, calls, events, hs>>

VendorOpen ==
  /\ stt.ready = CONNECTING
  /\ stt' = [stt EXCEPT !.ready = OPEN,
                        !.events = Append(@, SttEvent("OPEN", 0)),
                        !.registered = @ + 1]
  /\ UNCHANGED <<ctor, adapter, shape, speechListener, calls, events, hs>>

\* the vendor connection is re-established and signals Open again: the
\* Open handler runs once more and registers another copy of each handler
VendorReopen ==
  /\ stt.ready = CLOSED
  /\ stt.registered >= 1
  /\ stt.registered < MaxOpens
  /\ stt' = [stt EXCEPT !.ready = OPEN,
                        !.events = Append(@, SttEvent("OPEN", 0)),
                        !.registered = @ + 1]
  /\ UNCHANGED <<ctor, adapter, shape, speechListener, calls, events, hs>>

\* the utterance a Results message with an alternative belongs to: the
\* first one after an end signal (speech_final or UtteranceEnd) starts the
\* next utterance
UtteranceOf(m) ==
  IF m.kind = "Transcript" /\ m.type = "Results" /\ m.alts > 0 /\ stt.uttClosed
    THEN stt.utt + 1 ELSE stt.utt

ClosesUtterance(m) ==
  IF m.kind = "Transcript" /\ m.type = "Results" /\ m.alts > 0
    THEN m.speech_final = "true"
    ELSE IF m.kind = "UtteranceEnd" THEN TRUE ELSE stt.uttClosed

\* the vendor connection delivers a message to the registered handlers
VendorDelivers(m) ==
  /\ stt.ready \in {OPEN, CLOSING}
  /\ stt.registered > 0
  /\ Len(stt.vlog) < MaxMessages
  /\ LET k == Len(stt.vlog) + 1
     IN  stt' = [stt EXCEPT !.vlog = Append(@, [m EXCEPT !.utt = UtteranceOf(m)]),
                            !.utt = UtteranceOf(m),
                            !.uttClosed = ClosesUtterance(m),
                            !.events = @ \o Repeat(HandlerEvents(m, k), stt.registered)]
  /\ UNCHANGED <<ctor, adapter, shape, speechListener, calls, events, hs>>

\* the vendor connection reports a transport error
VendorError ==
  /\ stt.ready < CLOSED
  /\ stt.errors < MaxErrors
  /\ stt' = [stt EXCEPT !.errors = @ + 1,
                        !.events = @ \o Repeat(<<SttEvent("ERROR", 0)>>, stt.registered)]
  /\ UNCHANGED <<ctor, adapter, shape, speechListener, calls, events, hs>>

\* the vendor connection closes
VendorClose ==
  /\ stt.ready < CLOSED
  /\ stt' = [stt EXCEPT !.ready = CLOSED,
                        !.events = @ \o Repeat(<<SttEvent("CLOSE", 0)>>, stt.registered)]
  /\ UNCHANGED <<ctor, adapter, shape, speechListener, calls, events, hs>>

\* the connection's ready state after disconnect(): a connecting or open
\* connection starts closing, a closing or closed one is left as it is
AfterDisconnectAlwaysClosing(ready) == CLOSING

AfterDisconnect(ready) == IF ready < CLOSING THEN CLOSING ELSE ready

\* close(): finalize() and disconnect() start the closing handshake
SttClose ==
  /\ stt.closeCalls < MaxCloses
  /\ stt' = [stt EXCEPT !.closeCalls = @ + 1,
                        !.ready = AfterDisconnect(@)]
  /\ UNCHANGED <<ctor, adapter, shape, speechListener, calls, events, hs>>

\* send(payload)
SttSend(payload) ==
  /\ Len(stt.sendLog) < MaxSends
  /\ stt' = [stt EXCEPT !.sendLog = Append(@, payload),
                        !.sent = IF SendGuard(stt.ready)
                                   THEN Append(@, Base64Decode(payload)) ELSE @]
  /\ UNCHANGED <<ctor, adapter, shape, speechListener, calls, events, hs>>

(***************************************************************************)
(* Construction of the adapters.  ctor records the one constructor call of *)
(* a run: the class, the configuration record passed, whether the          *)
(* constructor returned or threw, whether it opened a vendor connection,   *)
(* and the requests the constructed ElevenLabs adapter built afterwards.   *)
(* Fractional tunables are kept in tenths (speed 0.1 is 1, stability 0.5   *)
(* is 5); an absent option is Undefined, an empty string a missing one.    *)
(***************************************************************************)
Classes == {"ElevenLabsTTS", "PlayHTTTS", "DeepgramTTS", "DeepgramSTT"}

\* x ?? d
OrDefault(x, d) == IF x = Undefined THEN d ELSE x

\* JavaScript truthiness of an optional number
Truthy(x) == x # Undefined /\ x # 0

NoConfig ==
  [apiKey |-> "", userId |-> "", voiceId |-> "",
   speed |-> Undefined, sampleRate |-> Undefined, temperature |-> Undefined,
   voiceGuidance |-> Undefined, styleGuidance |-> Undefined,
   textGuidance |-> Undefined, speakingRate |-> Undefined,
   stability |-> Undefined, similarityBoost |-> Undefined,
   encoding |-> "absent", bitRate |-> Undefined]

Keys == {"", "key"}

PlayHTConfig ==
  {[NoConfig EXCEPT !.apiKey = k, !.userId = u, !.voiceId = v, !.speed = sp,
                    !.sampleRate = sr, !.temperature = t, !.voiceGuidance = vg,
                    !.styleGuidance = sg, !.textGuidance = tg] :
     k \in Keys, u \in Keys, v \in {"", "voice"},
     sp \in {Undefined, 0, 10, 51}, sr \in {Undefined, 0, 24000, 96000},
     t \in {Undefined, 0, 3}, vg \in {Undefined, 0, 6, 7},
     sg \in {Undefined, 0, 31}, tg \in {Undefined, 0, 2, 3}}

DeepgramTTSConfig ==
  {[NoConfig EXCEPT !.apiKey = k, !.voiceId = "voice", !.speakingRate = r] :
     k \in Keys, r \in {Undefined, 0, 4, 5, 20, 21}}

ElevenLabsConfig ==
  {[NoConfig EXCEPT !.apiKey = k, !.voiceId = "voice", !.stability = st,
                    !.similarityBoost = sb, !.encoding = e, !.sampleRate = sr,
                    !.bitRate = br] :
     k \in Keys, st \in {Undefined, 5, 15}, sb \in {Undefined, 10, 11},
     e \in {"absent", "mp3", "pcm", "ulaw", "wav"},
     sr \in {Undefined, 8000, 16000, 22050, 44100},
     br \in {Undefined, 32, 192}}

DeepgramSTTConfig == {[NoConfig EXCEPT !.apiKey = k] : k \in Keys}

ConfigsOf(class) ==
  CASE class = "PlayHTTTS" -> PlayHTConfig
    [] class = "DeepgramTTS" -> DeepgramTTSConfig
    [] class = "ElevenLabsTTS" -> ElevenLabsConfig
    [] class = "DeepgramSTT" -> DeepgramSTTConfig

\* the PlayHTTTS constructor: "ok" or the error it throws
PlayHTConstructor(config) ==
  LET speed == OrDefault(config.speed, 10)
      sampleRate == OrDefault(config.sampleRate, 24000)
      textGuidance == OrDefault(config.textGuidance, 1)
  IN  IF config.apiKey = "" \/ config.userId = "" THEN "credentials required"
      ELSE IF config.voiceId = "" THEN "voice id required"
      ELSE IF speed < 1 \/ speed > 50 THEN "speed"
      ELSE IF Truthy(sampleRate) /\ (sampleRate < 8000 \/ sampleRate > 48000)
        THEN "sample rate"
      ELSE IF Truthy(config.temperature)
                /\ (config.temperature < 0 \/ config.temperature > 2)
        THEN "temperature"
      ELSE IF Truthy(config.voiceGuidance)
                /\ (config.voiceGuidance < 1 \/ config.voiceGuidance > 6)
        THEN "voice guidance"
      ELSE IF Truthy(config.styleGuidance)
                /\ (config.styleGuidance < 1 \/ config.styleGuidance > 30)
        THEN "style guidance"
      ELSE IF Truthy(textGuidance) /\ (textGuidance < 1 \/ textGuidance > 2)
        THEN "text guidance"
      ELSE "ok"

\* the DeepgramTTS constructor
DeepgramTTSConstructor(config) ==
  LET speakingRate == OrDefault(config.speakingRate, 10)
  IN  IF config.apiKey = "" THEN "credentials required"
      ELSE IF speakingRate < 5 \/ speakingRate > 20 THEN "speaking rate"
      ELSE "ok"

\* the ElevenLabsTTS constructor
ElevenLabsConstructor(config) ==
  IF config.apiKey = "" THEN "credentials required" ELSE "ok"

\* the DeepgramSTT constructor checks nothing itself; createClient of the
\* vendor SDK decides whether the key it is handed is acceptable
DeepgramSTTConstructor(config, createClientThrows) ==
  IF createClientThrows THEN "createClient" ELSE "ok"

Constructor(class, config, createClientThrows) ==
  CASE class = "PlayHTTTS" -> PlayHTConstructor(config)
    [] class = "DeepgramTTS" -> DeepgramTTSConstructor(config)
    [] class = "ElevenLabsTTS" -> ElevenLabsConstructor(config)
    [] class = "DeepgramSTT" -> DeepgramSTTConstructor(config, createClientThrows)

\* ElevenLabsOutputFormat: the formats the vendor supports
ElevenLabsOutputFormats ==
  {<<"mp3", 22050, 32>>, <<"mp3", 44100, 32>>, <<"mp3", 44100, 64>>,
   <<"mp3", 44100, 96>>, <<"mp3", 44100, 128>>, <<"mp3", 44100, 192>>,
   <<"pcm", 16000, 0>>, <<"pcm", 22050, 0>>, <<"pcm", 24000, 0>>,
   <<"pcm", 44100, 0>>, <<"ulaw", 8000, 0>>}

\* the fields the ElevenLabs constructor stores
ElevenLabsEncoding(config) == IF config.encoding = "absent" THEN "pcm" ELSE config.encoding
ElevenLabsSampleRate(config) == OrDefault(config.sampleRate, 16000)
ElevenLabsBitRate(config) == OrDefault(config.bitRate, 32)

\* determineOutputFormat(): a format, or <<"throw">> for Unsupported encoding
determineOutputFormat(config) ==
  LET encoding == ElevenLabsEncoding(config)
      sampleRate == ElevenLabsSampleRate(config)
      bitRate == ElevenLabsBitRate(config)
  IN  IF encoding = "mp3"
        THEN IF sampleRate = 22050 THEN <<"mp3", 22050, 32>>
             ELSE IF sampleRate = 44100
               THEN IF bitRate \in {32, 64, 96, 128, 192}
                      THEN <<"mp3", 44100, bitRate>>
                      ELSE <<"mp3", 44100, 64>>
             ELSE <<"mp3", 44100, 64>>
      ELSE IF encoding = "pcm"
        THEN IF sampleRate \in {16000, 22050, 24000, 44100}
               THEN <<"pcm", sampleRate, 0>>
               ELSE <<"pcm", 16000, 0>>
      ELSE IF encoding = "ulaw" THEN <<"ulaw", 8000, 0>>
      ELSE <<"throw">>

NotConstructed ==
  [class |-> "none", config |-> NoConfig, status |-> "none", error |-> "none",
   connections |-> 0, requests |-> <<>>]

\* new Class(config): the constructor returns or throws; the DeepgramSTT
\* constructor that returns has opened the live vendor connection
Construct(class, config, createClientThrows) ==
  /\ ctor.status = "none"
  /\ LET outcome == Constructor(class, config, createClientThrows)
     IN  ctor' = [ctor EXCEPT !.class = class,
                              !.config = config,
                              !.status = IF outcome = "ok" THEN "constructed" ELSE "threw",
                              !.error = outcome,
                              !.connections = IF class = "DeepgramSTT" /\ outcome = "ok"
                                                THEN 1 ELSE 0]
  /\ UNCHANGED <<stt, adapter, shape, speechListener, calls, events, hs>>

\* generate / generateStream of a constructed ElevenLabs adapter up to its
\* request: determineOutputFormat() may throw, otherwise the request is
\* issued with the output_format and the voice_settings of the adapter
ElevenLabsRequest ==
  /\ ctor.class = "ElevenLabsTTS"
  /\ ctor.status = "constructed"
  /\ Len(ctor.requests) < MaxRequests
  /\ LET format == determineOutputFormat(ctor.config)
     IN  ctor' = [ctor EXCEPT !.requests =
                    Append(@, IF format = <<"throw">>
                                THEN [sent |-> FALSE, output_format |-> format,
                                      stability |-> Undefined,
                                      similarity_boost |-> Undefined]
                                ELSE [sent |-> TRUE, output_format |-> format,
                                      stability |-> OrDefault(ctor.config.stability, 5),
                                      similarity_boost |->
                                        OrDefault(ctor.config.similarityBoost, 8)])]
  /\ UNCHANGED <<stt, adapter, shape, speechListener, calls, events, hs>>

Init ==
  /\ adapter \in Adapters
  /\ shape = "readable"
  /\ speechListener \in {"returns", "throws"}
  /\ calls = [c \in Calls |-> IdleCall]
  /\ events = <<>>
  /\ hs = [h \in Handles |-> IdleHandle]
  /\ stt = SttInitial
  /\ ctor = NotConstructed

Next ==
  \/ \E req \in TTSRequest : Generate(1, req)
  \/ \E o \in {"reject", "notok", "ok"} : SubmitSettles(1, o)
  \/ \E o \in {"reject", "notok", "ok"}, s \in Statuses, u \in Urls :
        StatusSettles(1, o, s, u)
  \/ DelayElapses(1)
  \/ \E o \in {"reject", "notok", "ok"} : DownloadSettles(1, o)
  \/ \E o \in {"reject", "ok"}, b \in AudioValues : BodySettles(1, o, b)

Spec == Init /\ [][Next]_vars

\* every vendor HTTP call and every poll delay of the call completes
LiveSpec == Init /\ [][Next]_vars /\ WF_vars(Next)

StreamInit ==
  /\ adapter \in Adapters
  /\ shape \in {"readable", "generator"}
  /\ shape = "generator" => adapter \in {"PlayHT", "Deepgram"}
  /\ speechListener \in {"returns", "throws"}
  /\ calls = [c \in Calls |-> IdleCall]
  /\ events = <<>>
  /\ hs = [h \in Handles |-> IdleHandle]
  /\ stt = SttInitial
  /\ ctor = NotConstructed

StreamNext ==
  \/ \E req \in TTSRequest : GenerateStream(1, req)
  \/ \E o \in {"reject", "notok", "nobody", "ok"} : StreamFetchSettles(1, o)
  \/ Pull(1)
  \/ \E o \in {"reject", "done", "value"}, b \in ChunkValues : ReadSettles(1, o, b)
  \/ Cancel(1)
  \/ \E req \in TTSRequest : IteratorNext(1, req)
  \/ \E o \in {"reject", "notok", "nobody", "ok"} : GeneratorFetchSettles(1, o)
  \/ \E o \in {"reject", "done", "value"}, b \in ChunkValues : GeneratorReadSettles(1, o, b)
  \/ IteratorReturn(1)

StreamSpec == StreamInit /\ [][StreamNext]_vars

SttInit ==
  /\ adapter = "Deepgram"
  /\ shape = "readable"
  /\ speechListener = "returns"
  /\ calls = [c \in Calls |-> IdleCall]
  /\ events = <<>>
  /\ hs = [h \in Handles |-> IdleHandle]
  /\ stt = SttInitial
  /\ ctor = NotConstructed

SttNext ==
  \/ VendorOpen
  \/ \E m \in VendorMessages : VendorDelivers(m)
  \/ VendorError
  \/ VendorClose
  \/ SttClose

SttSpec == SttInit /\ [][SttNext]_vars

\* the session with a vendor connection that may signal Open again
ReopenNext ==
  \/ SttNext
  \/ VendorReopen

ReopenSpec == SttInit /\ [][ReopenNext]_vars

SendNext ==
  \/ VendorOpen
  \/ \E p \in SendPayloads : SttSend(p)
  \/ VendorClose
  \/ SttClose

SendSpec == SttInit /\ [][SendNext]_vars

ConstructInit ==
  /\ adapter = "ElevenLabs"
  /\ shape = "readable"
  /\ speechListener = "returns"
  /\ calls = [c \in Calls |-> IdleCall]
  /\ events = <<>>
  /\ hs = [h \in Handles |-> IdleHandle]
  /\ stt = SttInitial
  /\ ctor = NotConstructed

ConstructNext ==
  \/ /\ ctor.status = "none"
     /\ \E class \in Classes : \E config \in ConfigsOf(class) :
          \E createClientThrows \in BOOLEAN :
            Construct(class, config, createClientThrows)
  \/ ElevenLabsRequest

ConstructSpec == ConstructInit /\ [][ConstructNext]_vars

\* two generateStream calls on one adapter instance, interleaved
SharedRequests ==
  {r \in TTSRequest : r.responseIndex = Undefined /\ r.interactionCount = 7}

SharedInit ==
  /\ adapter \in Adapters
  /\ shape = "readable"
  /\ speechListener = "returns"
  /\ calls = [c \in Calls |-> IdleCall]
  /\ events = <<>>
  /\ hs = [h \in Handles |-> IdleHandle]
  /\ stt = SttInitial
  /\ ctor = NotConstructed

SharedNext ==
  \E h \in Handles :
    \/ \E req \in SharedRequests : GenerateStream(h, req)
    \/ \E o \in {"reject", "ok"} : StreamFetchSettles(h, o)
    \/ Pull(h)
    \/ \E o \in {"reject", "done", "value"} : ReadSettles(h, o, <<77>>)
    \/ Cancel(h)

SharedSpec == SharedInit /\ [][SharedNext]_vars

\* one adapter serving one call, a generate or a generateStream
CallNext ==
  \/ hs[1].spc = "idle" /\ Next
  \/ calls[1].pc = "idle" /\ StreamNext

CallSpec == StreamInit /\ [][CallNext]_vars

\* two generate calls in flight on one adapter instance, interleaved; the
\* calls carry different requests
ConcurrentRequest(c) ==
  IF c = 1 THEN [text |-> "hi", responseIndex |-> 3, interactionCount |-> 7]
  ELSE [text |-> "hi", responseIndex |-> Undefined, interactionCount |-> Undefined]

ConcurrentNext ==
  \E c \in Calls :
    \/ Generate(c, ConcurrentRequest(c))
    \/ \E o \in {"reject", "notok", "ok"} : SubmitSettles(c, o)
    \/ \E o \in {"reject", "notok", "ok"}, st \in Statuses, u \in Urls :
          StatusSettles(c, o, st, u)
    \/ DelayElapses(c)
    \/ \E o \in {"reject", "notok", "ok"} : DownloadSettles(c, o)
    \/ \E o \in {"reject", "ok"}, b \in ChunkValues : BodySettles(c, o, b)

ConcurrentSpec == Init /\ [][ConcurrentNext]_vars

(***************************************************************************)
(* Observations used by the properties                                     *)
(***************************************************************************)
IsEventOf(e, src, id, kind) == e.src = src /\ e.id = id /\ e.kind = kind

EventIndexes(src, id, kind) ==
  {i \in 1..Len(events) : IsEventOf(events[i], src, id, kind)}

NSpeech(c) == Cardinality(EventIndexes("generate", c, "SPEECH"))
NError(c) == Cardinality(EventIndexes("generate", c, "ERROR"))

AllPending(log, n) == \A i \in 1..n : log[i] = "pending"

\* C1: every generate call emits at most one SPEECH and at most one ERROR,
\* and never both, whatever the listeners do.
C1_AtMostOneSpeechOrError ==
  \A c \in Calls :
    /\ NSpeech(c) <= 1
    /\ NError(c) <= 1
    /\ ~(NSpeech(c) >= 1 /\ NError(c) >= 1)

\* C2: a failed generate has emitted exactly one ERROR, carrying the error
\* the call rejects with, no SPEECH of the call follows that ERROR, and an
\* ERROR is emitted only for a call that rejects.
C2_FailureEmitsSameError ==
  \A c \in Calls :
    /\ calls[c].pc = "rejected" =>
         /\ NError(c) = 1
         /\ \A i \in EventIndexes("generate", c, "ERROR") :
               /\ events[i].error = calls[c].rejection
               /\ \A j \in EventIndexes("generate", c, "SPEECH") : j < i
    /\ NError(c) >= 1 => calls[c].pc = "rejected"

C2_Witness ==
  \E c \in Calls : calls[c].pc = "rejected" /\ calls[c].rejection = "download_failed"

\* C3: a resolved generate has emitted exactly one SPEECH whose payload is
\* (responseIndex or 0 when absent, base64 of the returned audioData bytes,
\* the request text, the request interactionCount).
C3_SuccessEmitsOneSpeech ==
  \A c \in Calls :
    calls[c].pc = "resolved" =>
      /\ NSpeech(c) = 1
      /\ \A i \in EventIndexes("generate", c, "SPEECH") :
            /\ events[i].responseIndex =
                 (IF calls[c].req.responseIndex = Undefined THEN 0
                  ELSE calls[c].req.responseIndex)
            /\ Base64Decode(events[i].audio) = calls[c].result.audioData
            /\ Len(events[i].audio) = 4 * ((Len(calls[c].result.audioData) + 2) \div 3)
            /\ events[i].text = calls[c].req.text
            /\ events[i].interactionCount = calls[c].req.interactionCount

C3_Witness ==
  \E c \in Calls :
    /\ calls[c].pc = "resolved"
    /\ calls[c].req.responseIndex = Undefined
    /\ Len(calls[c].result.audioData) = 2

\* C4: the result of a resolved generate carries the request's text and the
\* request's responseIndex (absent when the request's is absent).
C4_ResultMetadataMatchesRequest ==
  \A c \in Calls :
    calls[c].pc = "resolved" =>
      /\ calls[c].result.metadata.text = calls[c].req.text
      /\ calls[c].result.metadata.responseIndex = calls[c].req.responseIndex

C4_Witness ==
  \E c \in Calls :
    /\ calls[c].pc = "resolved"
    /\ adapter = "Deepgram"
    /\ calls[c].req.responseIndex = Undefined
    /\ calls[c].req.text = "hi"

\* C5: a generate call with an empty text fails with the validation error
\* and has issued no vendor HTTP request.
C5_EmptyTextFailsWithoutIO ==
  \A c \in Calls :
    (calls[c].pc # "idle" /\ calls[c].req.text = "") =>
      /\ calls[c].pc = "rejected"
      /\ calls[c].rejection = "text_required"
      /\ calls[c].submitCount = 0

\* C6: with attempt bound N = maxAttempts, a first 'completed' at attempt
\* k <= N stops polling after exactly k status requests, the audio is
\* downloaded from the reported URL and returned; N non-terminal statuses
\* make generate fail with the timeout error after exactly N status
\* requests, without any download.
C6_PollStopsAtCompletionOrBound ==
  \A c \in Calls :
    LET call == calls[c]
        log == call.statusLog
        n == Len(log)
    IN  /\ call.statusCount <= maxAttempts
        /\ \A k \in 1..n : log[k] = "completed" =>
              /\ k = n /\ k <= maxAttempts
              /\ AllPending(log, k - 1)
              /\ call.statusCount = k
              /\ call.downloadCount = 1
              /\ call.downloadUrl = call.completedUrl
              /\ call.pc \in {"downloading", "reading_body", "resolved", "rejected"}
              /\ call.pc = "resolved" => call.result.audioData = call.fetched
              /\ call.pc = "rejected" =>
                   call.rejection \in {"network", "download_failed", "listener_threw"}
        /\ (n >= maxAttempts /\ AllPending(log, maxAttempts)) =>
              /\ n = maxAttempts
              /\ call.statusCount = maxAttempts
              /\ call.downloadCount = 0
              /\ call.pc \in {"delay", "rejected"}
              /\ call.pc = "rejected" => call.rejection = "timeout"
        /\ call.rejection = "timeout" =>
              /\ call.statusCount = maxAttempts
              /\ n = maxAttempts /\ AllPending(log, maxAttempts)

C6_Witness ==
  \E c \in Calls :
    /\ calls[c].pc = "resolved"
    /\ Len(calls[c].statusLog) = maxAttempts
    /\ calls[c].statusLog[maxAttempts] = "completed"
    /\ Len(calls[c].result.audioData) = 1

\* C7: the first status response that is 'failed' or not OK ends the poll:
\* generate rejects with the upstream error, no further status request and
\* no download is issued, no SPEECH and exactly one ERROR is emitted.
C7_FailedStatusFailsImmediately ==
  \A c \in Calls :
    LET call == calls[c]
        log == call.statusLog
    IN  \A k \in 1..Len(log) : log[k] \in {"failed", "notok"} =>
          /\ k = Len(log)
          /\ call.pc = "rejected"
          /\ call.rejection = (IF log[k] = "failed" THEN "generation_failed"
                               ELSE "status_check_failed")
          /\ call.statusCount = k
          /\ call.downloadCount = 0
          /\ NSpeech(c) = 0
          /\ NError(c) = 1

C7_Witness ==
  \E c \in Calls :
    /\ calls[c].statusLog = <<"pending", "failed">>
    /\ calls[c].pc = "rejected"

DataOf(h) == SelectSeq(hs[h].trace, LAMBDA x : x.t = "data")

StreamSpeechOf(h) == SelectSeq(events, LAMBDA e : IsEventOf(e, "stream", h, "SPEECH"))

C9_OneSpeechPerChunk ==
  \A h \in Handles : Len(StreamSpeechOf(h)) = Len(DataOf(h))

\* C10: once the consumer has cancelled a stream handle, no further read is
\* issued to the vendor byte stream, the reader has been released, and the
\* consumer is handed no further chunk and no error.
C10_CancelStopsAndReleases ==
  \A h \in Handles :
    LET tr == hs[h].trace
    IN  \A i \in 1..Len(tr) : tr[i].t = "cancel" =>
          /\ \A j \in (i + 1)..Len(tr) : tr[j].t \notin {"read", "data", "error"}
          /\ \E j \in 1..Len(tr) : tr[j].t = "release"

DataIn(tr) == SelectSeq(tr, LAMBDA x : x.t = "data")

StreamEventsIn(evs, h) == SelectSeq(evs, LAMBDA e : e.src = "stream" /\ e.id = h)

StreamErrorsOf(h) == SelectSeq(events, LAMBDA e : IsEventOf(e, "stream", h, "ERROR"))

\* C11: over the whole lifetime of a stream handle the reader is released
\* (reader.cancel() invoked) at most once, however often cancel() is called
\* and also when it is called after the stream ended or failed.
C11_ReleaseAtMostOnce ==
  \A h \in Handles : CountOf(hs[h].trace, "release") <= 1

\* C12: once cancel() has returned while a read is in flight, the reader is
\* released, and whatever the pending read settles to, no chunk is handed
\* to the consumer and the adapter emits no SPEECH and no ERROR for the
\* handle.
C12_PendingReadAbandoned ==
  [][\A h \in Handles :
       (hs[h].readPending /\ CountOf(hs[h].trace, "cancel") > 0) =>
         /\ CountOf(hs[h].trace, "release") > 0
         /\ DataIn(hs'[h].trace) = DataIn(hs[h].trace)
         /\ StreamEventsIn(events', h) = StreamEventsIn(events, h)]_vars

\* C13: when a read of the vendor byte stream fails in a Readable handle,
\* the adapter emits one ERROR with that error, the consumer's sequence ends
\* with that same error, and the reader is released exactly once.
C13_ReadFailureSignalled ==
  \A h \in Handles :
    LET tr == hs[h].trace
        failed == {i \in 1..Len(tr) : tr[i].t = "error" /\ tr[i].e = "read_failed"}
        seen == \/ failed # {}
                \/ \E i \in 1..Len(StreamErrorsOf(h)) :
                      StreamErrorsOf(h)[i].error = "read_failed"
    IN  (shape = "readable" /\ seen) =>
          /\ Len(StreamErrorsOf(h)) = 1
          /\ StreamErrorsOf(h)[1].error = "read_failed"
          /\ Cardinality(failed) = 1
          /\ \A i \in failed : \A j \in (i + 1)..Len(tr) : tr[j].t # "end"
          /\ CountOf(tr, "release") = 1


(***************************************************************************)
(* Observations of the STT session used by the properties                  *)
(***************************************************************************)
SttCount(kind) ==
  Cardinality({i \in 1..Len(stt.events) : stt.events[i].kind = kind})

IsResult(m) == m.kind = "Transcript" /\ m.type = "Results" /\ m.alts > 0

\* message i ended its utterance with speech_final = true
EndsBySpeechFinal(i) == IsResult(stt.vlog[i]) /\ stt.vlog[i].speech_final = "true"

\* the utterance of message k had no end signal before message k
OpenUtteranceAt(k) ==
  \A i \in 1..(k - 1) :
    stt.vlog[i].utt = stt.vlog[k].utt =>
      ~EndsBySpeechFinal(i) /\ stt.vlog[i].kind # "UtteranceEnd"

\* the utterance of message k was closed by a speech_final result before k
\* and no final text arrived in between
ClosedBySpeechFinalAt(k) ==
  \E i \in 1..(k - 1) :
    /\ EndsBySpeechFinal(i)
    /\ \E j \in 1..Len(stt.events) :
         /\ stt.events[j].kind = "TRANSCRIPTION"
         /\ stt.events[j].msg = i
         /\ stt.events[j].speechFinal
    /\ \A n \in (i + 1)..(k - 1) :
         ~(IsResult(stt.vlog[n]) /\ stt.vlog[n].is_final = "true")

\* the final text of the utterance of message k accumulated up to message
\* k: appended with one separating space, trimmed
RECURSIVE Accumulated(_, _)
Accumulated(k, u) ==
  IF k = 0 THEN <<>>
  ELSE IF stt.vlog[k].utt = u /\ IsResult(stt.vlog[k]) /\ stt.vlog[k].is_final = "true"
         THEN Trim(Accumulated(k - 1, u) \o <<"sp">> \o stt.vlog[k].transcript)
         ELSE Accumulated(k - 1, u)

EventsOfMessage(k) == {j \in 1..Len(stt.events) : stt.events[j].msg = k}

UttOfEvent(j) == stt.vlog[stt.events[j].msg].utt

\* C14: once close() has been called and the session is CLOSED, the
\* adapter has emitted CLOSE exactly once, also when close() was called
\* while the session was still CONNECTING.
C14_CloseEmitsCloseOnce ==
  (stt.closeCalls >= 1 /\ stt.ready = CLOSED) => SttCount("CLOSE") = 1

\* C15: a send(payload) step emits no event; in OPEN it forwards the bytes
\* the payload encodes to the vendor connection, in every other state it
\* forwards nothing.
C15_SendOnlyWhenOpen ==
  [][Len(stt'.sendLog) = Len(stt.sendLog) + 1 =>
       /\ stt'.events = stt.events
       /\ stt'.ready = stt.ready
       /\ IF stt.ready = OPEN
            THEN /\ Len(stt'.sent) = Len(stt.sent) + 1
                 /\ SubSeq(stt'.sent, 1, Len(stt.sent)) = stt.sent
                 /\ Base64(stt'.sent[Len(stt'.sent)]) = stt'.sendLog[Len(stt'.sendLog)]
            ELSE stt'.sent = stt.sent]_vars

C15_Witness ==
  /\ Len(stt.sendLog) = 3
  /\ Len(stt.sent) = 1
  /\ stt.ready = CLOSED
  /\ stt.events = <<SttEvent("OPEN", 0), SttEvent("CLOSE", 0)>>

\* C16: every terminal TRANSCRIPTION (isFinal and speechFinal) carries the
\* accumulated final text of its utterance, the finals joined by a single
\* space and trimmed, and there is one such event per terminal message.
C16_TerminalCarriesAccumulatedText ==
  \A k \in 1..Len(stt.vlog) :
    (EndsBySpeechFinal(k) /\ stt.vlog[k].is_final = "true") =>
      /\ Cardinality(EventsOfMessage(k)) = 1
      /\ \A j \in EventsOfMessage(k) :
           /\ stt.events[j].kind = "TRANSCRIPTION"
           /\ stt.events[j].isFinal /\ stt.events[j].speechFinal
           /\ stt.events[j].text = Accumulated(k, stt.vlog[k].utt)

\* C17: a vendor utterance-end message that arrives while its utterance
\* has had no end signal yields exactly one TRANSCRIPTION with isFinal,
\* speechFinal and the accumulated final text.
C17_UtteranceEndSynthesizesTerminal ==
  \A k \in 1..Len(stt.vlog) :
    (stt.vlog[k].kind = "UtteranceEnd" /\ OpenUtteranceAt(k)) =>
      \E j \in EventsOfMessage(k) :
        /\ stt.events[j].kind = "TRANSCRIPTION"
        /\ stt.events[j].isFinal /\ stt.events[j].speechFinal
        /\ stt.events[j].text = Accumulated(k, stt.vlog[k].utt)
        /\ \A n \in EventsOfMessage(k) :
             stt.events[n].kind = "TRANSCRIPTION" => n = j

\* C18: a vendor utterance-end message that arrives after a TRANSCRIPTION
\* with speechFinal was emitted, and before any new final text, produces
\* no TRANSCRIPTION event.
C18_NoTranscriptionAfterSpeechFinal ==
  \A k \in 1..Len(stt.vlog) :
    (stt.vlog[k].kind = "UtteranceEnd" /\ ClosedBySpeechFinalAt(k)) =>
      \A j \in EventsOfMessage(k) : stt.events[j].kind # "TRANSCRIPTION"

C18_Witness ==
  /\ Len(stt.vlog) = 2
  /\ EndsBySpeechFinal(1)
  /\ stt.vlog[2].kind = "UtteranceEnd"
  /\ ClosedBySpeechFinalAt(2)
  /\ SttCount("TRANSCRIPTION") = 1

\* C19: a vendor utterance-end message for an utterance already closed by
\* a speechFinal result is suppressed: the session emits no event for it.
C19_UtteranceEndSuppressed ==
  \A k \in 1..Len(stt.vlog) :
    (stt.vlog[k].kind = "UtteranceEnd"
       /\ \E i \in 1..(k - 1) :
            stt.vlog[i].utt = stt.vlog[k].utt /\ EndsBySpeechFinal(i)) =>
      EventsOfMessage(k) = {}

C21_TransportErrorEmittedOnce == SttCount("ERROR") = stt.errors

\* C29: OPEN is emitted exactly when the connection goes from CONNECTING
\* to OPEN, once, and at no other step (not before, not after closing).
C29_OpenEmittedAtOpening ==
  [][LET before == SttCount("OPEN")
         after == SttCount("OPEN")'
     IN  /\ after = IF stt.ready = CONNECTING /\ stt'.ready = OPEN
                      THEN before + 1 ELSE before
         /\ after <= 1]_vars

C29_Witness ==
  /\ stt.ready = CLOSED
  /\ SttCount("OPEN") = 1
  /\ stt.events[1].kind = "OPEN"
  /\ Len(stt.vlog) = 2
  /\ stt.closeCalls = 2

Supplied(x) == x # Undefined

Within(x, lo, hi) == ~Supplied(x) \/ (lo <= x /\ x <= hi)

\* some supplied numeric tunable lies outside its documented range
OutOfRange(class, config) ==
  CASE class = "PlayHTTTS" ->
         ~(/\ Within(config.speed, 1, 50)
           /\ Within(config.sampleRate, 8000, 48000)
           /\ Within(config.temperature, 0, 2)
           /\ Within(config.voiceGuidance, 1, 6)
           /\ Within(config.styleGuidance, 1, 30)
           /\ Within(config.textGuidance, 1, 2))
    [] class = "DeepgramTTS" -> ~Within(config.speakingRate, 5, 20)
    [] class = "ElevenLabsTTS" ->
         ~(Within(config.stability, 0, 10) /\ Within(config.similarityBoost, 0, 10))
    [] OTHER -> FALSE

MissingCredentials(class, config) ==
  config.apiKey = "" \/ (class = "PlayHTTTS" /\ config.userId = "")

\* the output format the configuration names
ConfiguredFormat(config) ==
  <<ElevenLabsEncoding(config), ElevenLabsSampleRate(config),
    IF ElevenLabsEncoding(config) = "mp3" THEN ElevenLabsBitRate(config) ELSE 0>>

\* C22: an ElevenLabs configuration with stability or similarityBoost
\* outside [0,1] is never constructed, so no request carries the value.
C22_ElevenLabsRejectsOutOfRange ==
  (ctor.class = "ElevenLabsTTS" /\ OutOfRange(ctor.class, ctor.config)) =>
    /\ ctor.status = "threw"
    /\ ctor.requests = <<>>

\* C23: with credentials and voice present, PlayHT and Deepgram TTS
\* construction fails exactly when a supplied numeric tunable is outside
\* its documented range (the value 0 included).
C23_FailsIffOutOfRange ==
  (/\ ctor.class \in {"PlayHTTTS", "DeepgramTTS"}
   /\ ~MissingCredentials(ctor.class, ctor.config)
   /\ ctor.config.voiceId # "") =>
    ((ctor.status = "threw") <=> OutOfRange(ctor.class, ctor.config))

\* C24: a constructor handed missing credentials throws and has opened no
\* vendor connection.
C24_MissingCredentialsRejected ==
  (ctor.status # "none" /\ MissingCredentials(ctor.class, ctor.config)) =>
    /\ ctor.status = "threw"
    /\ ctor.connections = 0

\* C25: a constructed ElevenLabs adapter names a supported output format,
\* and every request it builds is sent with exactly that format.
C25_UnsupportedFormatRejected ==
  (ctor.class = "ElevenLabsTTS" /\ ctor.status = "constructed") =>
    /\ ConfiguredFormat(ctor.config) \in ElevenLabsOutputFormats
    /\ \A i \in 1..Len(ctor.requests) :
         /\ ctor.requests[i].sent
         /\ ctor.requests[i].output_format = ConfiguredFormat(ctor.config)

\* the handles whose reader is acquired and not released
OpenReaders ==
  {h \in Handles : /\ CountOf(hs[h].trace, "acquire") > 0
                   /\ CountOf(hs[h].trace, "release") = 0}

\* C26: one adapter instance never holds more than one open body reader,
\* however its generateStream calls, cancels and stream ends interleave.
C26_AtMostOneOpenReader == Cardinality(OpenReaders) <= 1

ChunksIn(tr) == SelectSeq(tr, LAMBDA x : x.t = "chunk")

AudioOf(entries) == [i \in 1..Len(entries) |-> entries[i].audio]

IsPrefix(a, b) == Len(a) <= Len(b) /\ SubSeq(b, 1, Len(a)) = a

\* C27: within one handle the chunks handed to the consumer are, in order
\* and byte for byte, the first chunks the transport produced, each once;
\* and a read is issued to the transport only while none is outstanding.
C27_DeliveryFollowsTransportOrder ==
  [][\A h \in Handles :
       /\ IsPrefix(AudioOf(DataIn(hs'[h].trace)), AudioOf(ChunksIn(hs'[h].trace)))
       /\ CountOf(hs'[h].trace, "read") > CountOf(hs[h].trace, "read") =>
            ~hs[h].readPending]_vars

C27_Witness ==
  /\ Len(DataOf(1)) = 2
  /\ DataOf(1)[1].audio # DataOf(1)[2].audio
  /\ AudioOf(DataOf(1)) = AudioOf(ChunksIn(hs[1].trace))
  /\ hs[1].ended

C31_SpeechStartedPassedThrough ==
  [][(/\ Len(stt'.vlog) = Len(stt.vlog) + 1
      /\ stt'.vlog[Len(stt'.vlog)].kind = "SpeechStarted") =>
       LET m == stt'.vlog[Len(stt'.vlog)]
       IN  /\ Len(stt'.events) = Len(stt.events) + 1
           /\ SubSeq(stt'.events, 1, Len(stt.events)) = stt.events
           /\ stt'.events[Len(stt'.events)].kind = "SPEECH_STARTED"
           /\ stt'.events[Len(stt'.events)].timestamp = m.timestamp
           /\ stt'.events[Len(stt'.events)].channel = m.channel
           /\ stt'.utt = stt.utt
           /\ stt'.uttClosed = stt.uttClosed
           /\ stt'.ready = stt.ready
           /\ stt'.registered = stt.registered
           /\ stt'.sent = stt.sent]_vars

C31_Witness ==
  /\ Len(stt.vlog) = 2
  /\ IsResult(stt.vlog[1]) /\ stt.vlog[1].is_final = "true"
  /\ stt.vlog[2].kind = "SpeechStarted" /\ stt.vlog[2].timestamp = 5
  /\ Len(stt.events) = 3
  /\ stt.events[3].kind = "SPEECH_STARTED"
  /\ stt.events[3].timestamp = 5 /\ stt.events[3].channel = 1

\* C32: a generate call never issues more than maxAttempts status
\* requests, and once started it eventually resolves or rejects, whatever
\* statuses the vendor returns.
C32_GenerateCompletes ==
  /\ [](calls[1].statusCount <= maxAttempts)
  /\ (calls[1].pc # "idle") ~> (calls[1].pc \in {"resolved", "rejected"})

C32_Witness ==
  /\ calls[1].pc = "rejected"
  /\ calls[1].rejection = "timeout"
  /\ calls[1].statusCount = maxAttempts
  /\ Len(calls[1].statusLog) = maxAttempts
  /\ \A i \in 1..Len(calls[1].statusLog) : calls[1].statusLog[i] = "pending"
  /\ calls[1].downloadCount = 0
  /\ NError(1) = 1

\* C33: every vendor message delivered to the session has exactly one
\* canonical event, however often the vendor connection signalled Open.
C33_OneEventPerMessage ==
  \A k \in 1..Len(stt.vlog) :
    (IsResult(stt.vlog[k]) \/ stt.vlog[k].kind \in {"UtteranceEnd", "SpeechStarted"}) =>
      Cardinality(EventsOfMessage(k)) = 1

\* a transcript without its leading and trailing spaces
WithoutOuterSpaces(t) ==
  LET words == {i \in 1..Len(t) : t[i] # "sp"}
  IN  IF words = {} THEN <<>>
      ELSE SubSeq(t, CHOOSE i \in words : \A j \in words : i <= j,
                     CHOOSE i \in words : \A j \in words : j <= i)

SpeechIndexesIn(evs, h) ==
  LET sp == SelectSeq(evs, LAMBDA e : IsEventOf(e, "stream", h, "SPEECH"))
  IN  [i \in 1..Len(sp) |-> sp[i].responseIndex]

\* C35: a step of one stream handle (read, cancel, failure, end) leaves
\* every other handle of the adapter as it was, and each handle's SPEECH
\* indexes count 0,1,2,... on their own.
C35_HandlesIndependent ==
  [][\A h \in Handles :
       /\ \A g \in Handles \ {h} : hs'[h] # hs[h] => hs'[g] = hs[g]
       /\ SpeechIndexesIn(events', h) =
            [i \in 1..Len(SpeechIndexesIn(events', h)) |-> i - 1]]_vars

C35_Witness ==
  /\ adapter = "Deepgram"
  /\ CountOf(hs[1].trace, "cancel") = 1
  /\ hs[1].destroyed
  /\ SpeechIndexesIn(events, 1) = <<0>>
  /\ SpeechIndexesIn(events, 2) = <<0, 1>>
  /\ events[1].id = 2 /\ events[2].id = 1 /\ events[3].id = 2
  /\ ~hs[2].destroyed
  /\ CountOf(hs[2].trace, "release") = 0

\* the events of generate call c among evs
GenerateEventsIn(evs, c) ==
  SelectSeq(evs, LAMBDA e : e.src = "generate" /\ e.id = c)

\* call c, if finished, has its own outcome: a resolved call one SPEECH
\* and a result with its own request's fields and its own audio bytes, a
\* rejected call one ERROR carrying its own rejection as the last event
OwnOutcome(cs, evs, c) ==
  LET mine == GenerateEventsIn(evs, c)
  IN  /\ cs[c].pc = "resolved" =>
           /\ Len(mine) = 1
           /\ mine[1].kind = "SPEECH"
           /\ mine[1].text = cs[c].req.text
           /\ mine[1].responseIndex =
                (IF cs[c].req.responseIndex = Undefined THEN 0
                 ELSE cs[c].req.responseIndex)
           /\ mine[1].interactionCount = cs[c].req.interactionCount
           /\ Base64Decode(mine[1].audio) = cs[c].fetched
           /\ cs[c].result.audioData = cs[c].fetched
           /\ cs[c].result.metadata.text = cs[c].req.text
           /\ cs[c].result.metadata.responseIndex = cs[c].req.responseIndex
      /\ cs[c].pc = "rejected" =>
           /\ Len(mine) >= 1
           /\ mine[Len(mine)].kind = "ERROR"
           /\ mine[Len(mine)].error = cs[c].rejection
           /\ Cardinality({i \in 1..Len(mine) : mine[i].kind = "ERROR"}) = 1
      /\ cs[c].pc \notin {"resolved", "rejected"} => Len(mine) = 0

\* C36: with two generate calls in flight, every step belongs to one call
\* and leaves the other call untouched, and each finished call has its own
\* outcome.
C36_NoCrossTalk ==
  [][\A c \in Calls :
       /\ \A d \in Calls \ {c} : calls'[c] # calls[c] => calls'[d] = calls[d]
       /\ OwnOutcome(calls', events', c)]_vars

C36_Witness ==
  /\ calls[1].pc = "rejected" /\ calls[1].rejection = "api_error"
  /\ calls[2].pc = "resolved"
  /\ calls[2].fetched = <<0, 255>>
  /\ Len(events) = 2
  /\ events[1].kind = "ERROR" /\ events[1].id = 1
  /\ events[2].kind = "SPEECH" /\ events[2].id = 2
  /\ events[2].responseIndex = 0

\* the generateStream call of handle h failed before its stream started
FailedBeforeStream(h) ==
  \/ hs[h].spc = "rejected"
  \/ hs[h].spc = "threw" /\ CountOf(hs[h].trace, "acquire") = 0

\* C37: a generateStream call that failed before its stream started has
\* emitted exactly one ERROR, the error it rejected with, and no SPEECH;
\* it acquired no reader, so nothing is read, released or delivered.
C37_EarlyFailureLeavesNothing ==
  \A h \in Handles :
    FailedBeforeStream(h) =>
      /\ Len(StreamEventsIn(events, h)) = 1
      /\ StreamEventsIn(events, h)[1].kind = "ERROR"
      /\ StreamEventsIn(events, h)[1].error = hs[h].rejection
      /\ hs[h].rejection \in {"text_required", "network", "api_error",
                              "no_body", "stream_failed"}
      /\ hs[h].reader = "none"
      /\ \A i \in 1..Len(hs[h].trace) :
           hs[h].trace[i].t \notin {"acquire", "read", "chunk", "release", "data", "end"}

C37_Witness ==
  /\ adapter = "PlayHT"
  /\ shape = "readable"
  /\ hs[1].spc = "rejected"
  /\ hs[1].rejection = "no_body"
  /\ hs[1].trace = <<Mark("request")>>
  /\ StreamErrorsOf(1) = <<ErrorEvent("stream", 1, "no_body")>>

====
